---- MODULE Spec2Model ----
(***************************************************************************)
(* git-commit-share: one run of cli.js (the version with --static, lines   *)
(* 291-516 of src/cli.js).  A run resolves a commit, reads its message and *)
(* diff from git, composes an HTML document around them and the three      *)
(* library assets, optionally pre-renders it in a headless DOM, and writes *)
(* the document to a file.                                                 *)
(*                                                                         *)
(* Text is a sequence of one-character strings.  Control characters carry  *)
(* names: LF, CR.  Time is in milliseconds since `start` (cli.js:473).     *)
(***************************************************************************)
EXTENDS Integers, Sequences, FiniteSets, TLC

\* ------------------------------------------------------------------ bounds

\* Longest diff text, in characters of DiffAlphabet.
MaxDiffLen == 4
\* Longest commit message, in fragments of MsgFragments.
MaxMsgLen == 3
\* Longest asset text, in fragments of AssetFragments.
MaxAssetLen == 2

\* ------------------------------------------------------- program constants

\* cli.js:477  if (Date.now() - start > 5000) return resolve()
DeadlineMs == 5000
\* cli.js:478  setTimeout(check, 25)
PollMs == 25
\* cli.js:481  addEventListener('load', () => setTimeout(check, 10))
LoadSettleMs == 10
\* cli.js:483  setTimeout(check, 20)
FallbackMs == 20

\* ------------------------------------------------------------- characters

LF == "LF"
CR == "CR"
BS == "\\"
SQ == "'"
DQ == "\""
SP == " "

\* What String.prototype.trim strips, among the characters used here.
WhiteSpace == {SP, LF, CR}

\* The letters of "script" and "style" in upper case, with their lower case:
\* what the i flag of /<\/script>/gi and the HTML tokenizer's tag-name
\* comparison fold.
Lower(c) ==
  CASE c = "S" -> "s" [] c = "C" -> "c" [] c = "R" -> "r" [] c = "I" -> "i"
    [] c = "P" -> "p" [] c = "T" -> "t" [] c = "Y" -> "y" [] c = "L" -> "l"
    [] c = "E" -> "e" [] OTHER -> c

LowerText(s) == [i \in 1..Len(s) |-> Lower(s[i])]

\* All sequences over `alphabet` of length at most n.
RECURSIVE TextsUpTo(_, _)
TextsUpTo(alphabet, n) ==
  IF n = 0 THEN {<<>>}
  ELSE LET shorter == TextsUpTo(alphabet, n - 1)
       IN  shorter \cup {<<c>> \o t : c \in alphabet, t \in {u \in shorter : Len(u) = n - 1}}

\* All concatenations of at most n fragments.
RECURSIVE Concats(_, _)
Concats(frags, n) ==
  IF n = 0 THEN {<<>>}
  ELSE LET shorter == Concats(frags, n - 1)
       IN  shorter \cup {f \o t : f \in frags, t \in shorter}

\* ------------------------------------------------ String.prototype.replace

\* Whether text s starts with pattern pat; ci is the regex's i flag.
StartsWith(s, pat, ci) ==
  /\ Len(s) >= Len(pat)
  /\ LET head == SubSeq(s, 1, Len(pat))
     IN  IF ci THEN LowerText(head) = LowerText(pat) ELSE head = pat

\* str.replace(/pat/g, rep): every match, left to right, never rescanning
\* the replacement.
RECURSIVE ReplaceAll(_, _, _, _)
ReplaceAll(s, pat, rep, ci) ==
  IF Len(s) < Len(pat) THEN s
  ELSE IF StartsWith(s, pat, ci)
       THEN rep \o ReplaceAll(SubSeq(s, Len(pat) + 1, Len(s)), pat, rep, ci)
       ELSE <<s[1]>> \o ReplaceAll(Tail(s), pat, rep, ci)

\* str.trim()
RECURSIVE TrimStart(_)
TrimStart(s) ==
  IF s # <<>> /\ s[1] \in WhiteSpace THEN TrimStart(Tail(s)) ELSE s

RECURSIVE TrimEnd(_)
TrimEnd(s) ==
  IF s # <<>> /\ s[Len(s)] \in WhiteSpace THEN TrimEnd(SubSeq(s, 1, Len(s) - 1)) ELSE s

Trim(s) == TrimEnd(TrimStart(s))

\* ------------------------------------------------------------- escapeHtml

AmpEntity == <<"&", "a", "m", "p", ";">>
LtEntity == <<"&", "l", "t", ";">>
GtEntity == <<"&", "g", "t", ";">>
QuotEntity == <<"&", "q", "u", "o", "t", ";">>
AposEntity == <<"&", "#", "3", "9", ";">>

\* escapeHtml with the ampersand replaced last instead of first.
escapeHtmlAmpLast(str) ==
  LET b == ReplaceAll(str, <<"<">>, LtEntity, FALSE)
      c == ReplaceAll(b, <<">">>, GtEntity, FALSE)
      d == ReplaceAll(c, <<DQ>>, QuotEntity, FALSE)
      e == ReplaceAll(d, <<SQ>>, AposEntity, FALSE)
  IN  ReplaceAll(e, <<"&">>, AmpEntity, FALSE)

escapeHtml(str) ==
  LET a == ReplaceAll(str, <<"&">>, AmpEntity, FALSE)
      b == ReplaceAll(a, <<"<">>, LtEntity, FALSE)
      c == ReplaceAll(b, <<">">>, GtEntity, FALSE)
      d == ReplaceAll(c, <<DQ>>, QuotEntity, FALSE)
  IN  ReplaceAll(d, <<SQ>>, AposEntity, FALSE)

\* ------------------------------------------------------------- safeInline

ScriptEndTag == <<"<", "/", "s", "c", "r", "i", "p", "t", ">">>
StyleEndTag == <<"<", "/", "s", "t", "y", "l", "e", ">">>
ScriptEndEscaped == <<"<", BS, "/", "s", "c", "r", "i", "p", "t", ">">>
StyleEndEscaped == <<"<", BS, "/", "s", "t", "y", "l", "e", ">">>

safeInline(content, kind) ==
  IF content = <<>> THEN <<>>
  ELSE IF kind = "script" THEN ReplaceAll(content, ScriptEndTag, ScriptEndEscaped, TRUE)
  ELSE IF kind = "style" THEN ReplaceAll(content, StyleEndTag, StyleEndEscaped, TRUE)
  ELSE content

\* ------------------------------------------- generateHtml: the diff literal

\* The escaping with the backslash replaced last instead of first.
escapedDiffBackslashLast(diffOutput) ==
  LET b == ReplaceAll(diffOutput, <<SQ>>, <<BS, SQ>>, FALSE)
      c == ReplaceAll(b, <<LF>>, <<BS, "n">>, FALSE)
      d == ReplaceAll(c, <<CR>>, <<BS, "r">>, FALSE)
  IN  ReplaceAll(d, <<BS>>, <<BS, BS>>, FALSE)

escapedDiff(diffOutput) ==
  LET a == ReplaceAll(diffOutput, <<BS>>, <<BS, BS>>, FALSE)
      b == ReplaceAll(a, <<SQ>>, <<BS, SQ>>, FALSE)
      c == ReplaceAll(b, <<LF>>, <<BS, "n">>, FALSE)
  IN  ReplaceAll(c, <<CR>>, <<BS, "r">>, FALSE)

\* ------------------------------------------- readers of the composed text
\* What the document's consumers (the HTML parser of JSDOM or a browser, and
\* the script engine) make of the text generateHtml composes.

\* The value of the single-quoted string literal '<body>' of the bootstrap
\* script (cli.js:433).  ok is FALSE when the text is not one string literal:
\* a bare quote ends it early, a bare line terminator or a trailing backslash
\* leaves it unterminated.
RECURSIVE JsStringLiteral(_)
JsStringLiteral(body) ==
  IF body = <<>> THEN [ok |-> TRUE, val |-> <<>>]
  ELSE IF body[1] \in {SQ, LF, CR} THEN [ok |-> FALSE, val |-> <<>>]
  ELSE IF body[1] = BS
  THEN IF Len(body) = 1 THEN [ok |-> FALSE, val |-> <<>>]
       ELSE LET c == body[2]
                crlf == c = CR /\ Len(body) >= 3 /\ body[3] = LF
                rest == JsStringLiteral(SubSeq(body, IF crlf THEN 4 ELSE 3, Len(body)))
                one == CASE c = "n" -> <<LF>>
                         [] c = "r" -> <<CR>>
                         [] c \in {LF, CR} -> <<>>
                         [] OTHER -> <<c>>
            IN  [ok |-> rest.ok, val |-> one \o rest.val]
  ELSE LET rest == JsStringLiteral(Tail(body))
       IN  [ok |-> rest.ok, val |-> <<body[1]>> \o rest.val]

\* The character references the HTML parser decodes in element content, with
\* the character each stands for; the named ones also without their semicolon.
CharRefs ==
  << [ref |-> AmpEntity, char |-> "&"], [ref |-> LtEntity, char |-> "<"],
     [ref |-> GtEntity, char |-> ">"], [ref |-> QuotEntity, char |-> DQ],
     [ref |-> AposEntity, char |-> SQ],
     [ref |-> <<"&", "a", "m", "p">>, char |-> "&"], [ref |-> <<"&", "l", "t">>, char |-> "<"],
     [ref |-> <<"&", "g", "t">>, char |-> ">"], [ref |-> <<"&", "q", "u", "o", "t">>, char |-> DQ] >>

\* The first character reference text s starts with, or 0.
CharRefAt(s) ==
  LET hits == {k \in 1..Len(CharRefs) : StartsWith(s, CharRefs[k].ref, FALSE)}
  IN  IF hits = {} THEN 0 ELSE CHOOSE k \in hits : \A j \in hits : k <= j

\* The text content the HTML parser gives an element whose markup is s
\* (cli.js:428 read back by cli.js:464 or by a browser).
RECURSIVE HtmlText(_)
HtmlText(s) ==
  IF s = <<>> THEN <<>>
  ELSE LET k == CharRefAt(s)
       IN  IF k = 0 THEN <<s[1]>> \o HtmlText(Tail(s))
           ELSE <<CharRefs[k].char>> \o HtmlText(SubSeq(s, Len(CharRefs[k].ref) + 1, Len(s)))

\* dom.serialize() of a text node (cli.js:488).
SerializeText(t) ==
  LET a == ReplaceAll(t, <<"&">>, AmpEntity, FALSE)
      b == ReplaceAll(a, <<"<">>, LtEntity, FALSE)
  IN  ReplaceAll(b, <<">">>, GtEntity, FALSE)

\* The characters that complete an end tag name in the HTML tokenizer.
TagEnders == {">", "/", SP, LF, CR}

\* Where the content of a <script> or <style> element (name: the tag name)
\* ends inside text s: the position of the first "</name" followed by a
\* character of TagEnders, in any letter case; 0 when s holds none.
EndTagAt(s, name) ==
  LET open == <<"<", "/">> \o name
      hits == {i \in 1..Len(s) :
                 /\ StartsWith(SubSeq(s, i, Len(s)), open, TRUE)
                 /\ i + Len(open) <= Len(s)
                 /\ s[i + Len(open)] \in TagEnders}
  IN  IF hits = {} THEN 0 ELSE CHOOSE i \in hits : \A j \in hits : i <= j

ScriptName == <<"s", "c", "r", "i", "p", "t">>
StyleName == <<"s", "t", "y", "l", "e">>
TagName(kind) == IF kind = "script" THEN ScriptName ELSE StyleName

\* The content the parser gives the element: the text up to its first end tag.
RawTextContent(s, kind) ==
  LET i == EndTagAt(s, TagName(kind))
  IN  IF i = 0 THEN s ELSE SubSeq(s, 1, i - 1)

\* ------------------------------------------------------------------ state

VARIABLES
  args,          \* process.argv: [isStatic, ref]
  git,           \* what the git subprocesses give: [headOk, refOk, showOk, message, diff]
  libs,          \* the libs directory: file name -> [state, text]
  page,          \* how the headless page behaves: [dclAt, busyMs, renders, loads, loadAt]
  pc,            \* where main is
  commit,        \* main's commit
  commitMessage, \* main's commitMessage
  diffOutput,    \* main's diffOutput
  base,          \* the document generateHtml returned
  dom,           \* the JSDOM document
  now,           \* Date.now() - start
  timers,        \* pending setTimeout(check, ...) calls: [chain, due]
  dclDone,       \* the page's DOMContentLoaded listener has run
  loadDone,      \* the load listener has run
  lastCheckAt,   \* when check last ran
  resolvedBy,    \* which branch of check resolved the wait
  resolvedAt,    \* when
  outFile,       \* the output file
  exitCode,      \* the process's exit status, once pc = "exited"
  stderr         \* what console.error printed

vars ==
  << args, git, libs, page, pc, commit, commitMessage, diffOutput, base, dom, now,
     timers, dclDone, loadDone, lastCheckAt, resolvedBy, resolvedAt, outFile,
     exitCode, stderr >>

inputs == << args, git, libs, page >>
waitVars == << now, timers, dclDone, loadDone, lastCheckAt, resolvedBy, resolvedAt >>

\* A variable main has not assigned yet.
Undefined == <<"undefined">>

NoRef == ""
SomeRef == "abc1234"
HeadHash == "f00ba47"

HighlightCss == "highlightjs-github.min.css"
Diff2HtmlCss == "diff2html.min.css"
Diff2HtmlJs == "diff2html-ui.min.js"
LibFiles == {HighlightCss, Diff2HtmlCss, Diff2HtmlJs}

Placeholder ==
  << "N", "o", SP, "c", "o", "m", "m", "i", "t", SP, "m", "e", "s", "s", "a", "g", "e" >>

\* A document: the parts of the markup that vary.  styles and scripts hold the
\* content of the <style> and <script> elements in document order (the fixed
\* third style block left out), message the markup inside #commit-message,
\* children the number of child elements of #diff-container.  scripts[2] is
\* the body of the bootstrap script's diffString literal.
NoDoc ==
  [present |-> FALSE, commit |-> "", styles |-> <<>>, message |-> <<>>,
   children |-> 0, scripts |-> <<>>]

Max(a, b) == IF a >= b THEN a ELSE b

\* ------------------------------------------------------------ generateHtml

\* readLibRequired giving the empty text for a file it cannot read.
readLibOptional(file) ==
  [ok |-> TRUE, text |-> IF libs[file].state = "present" THEN libs[file].text ELSE <<>>]

\* fs.readFileSync in readLibRequired: ok is FALSE when it throws.
readLibRequired(file) ==
  IF libs[file].state = "present"
  THEN [ok |-> TRUE, text |-> libs[file].text]
  ELSE [ok |-> FALSE, text |-> <<>>]

\* The region without the fallback.
MessageRegionNoFallback(escapedMessage) == escapedMessage

\* escapedMessage || 'No commit message'
MessageRegion(escapedMessage) ==
  IF escapedMessage = <<>> THEN Placeholder ELSE escapedMessage

\* ok is FALSE when a readLibRequired call exits the process; missing is then
\* the file it names.
generateHtml(c, message, diff) ==
  LET cssHighlight == readLibRequired(HighlightCss)
      cssDiff2Html == readLibRequired(Diff2HtmlCss)
      jsDiff2Html == readLibRequired(Diff2HtmlJs)
  IN  [ok |-> cssHighlight.ok /\ cssDiff2Html.ok /\ jsDiff2Html.ok,
       missing |-> IF ~cssHighlight.ok THEN HighlightCss
                   ELSE IF ~cssDiff2Html.ok THEN Diff2HtmlCss
                   ELSE Diff2HtmlJs,
       html |-> [present |-> TRUE,
                 commit |-> c,
                 styles |-> << safeInline(cssHighlight.text, "style"),
                               safeInline(cssDiff2Html.text, "style") >>,
                 message |-> MessageRegion(escapeHtml(message)),
                 children |-> 0,
                 scripts |-> << safeInline(jsDiff2Html.text, "script"),
                                escapedDiff(diff) >>]]

\* new JSDOM(base, ...): the document the HTML parser builds from the markup.
\* (Markup that follows an element's early end is not represented.)
ParseDocument(doc) ==
  [doc EXCEPT !.styles = [i \in 1..Len(doc.styles) |-> RawTextContent(doc.styles[i], "style")],
              !.message = HtmlText(doc.message),
              !.scripts = [i \in 1..Len(doc.scripts) |-> RawTextContent(doc.scripts[i], "script")]]

\* A strip that removes the first script element only.
StripFirstScript(d) == [d EXCEPT !.scripts = IF d.scripts = <<>> THEN <<>> ELSE Tail(d.scripts)]

\* querySelectorAll('script').forEach((s) => s.remove())
StripScripts(d) == [d EXCEPT !.scripts = <<>>]

\* dom.serialize(): the markup of the document.
Serialize(d) == [d EXCEPT !.message = SerializeText(d.message)]

\* Whether the bootstrap script of the parsed page runs: it does when the
\* diffString literal is one well-formed literal inside its script element.
BootstrapRuns ==
  /\ dom.present
  /\ base.scripts[2] = RawTextContent(base.scripts[2], "script")
  /\ JsStringLiteral(base.scripts[2]).ok

\* ----------------------------------------------------------------- inputs

DiffAlphabet == {BS, SQ, LF, CR, "n"}

\* Diffs of commits that touch markup: an added line holding a script end
\* tag, the bare tag, and the tag in upper case with white space before ">".
MarkupDiffs ==
  { <<"+">> \o ScriptEndTag \o <<LF>>,
    ScriptEndTag,
    <<"<", "/", "S", "C", "R", "I", "P", "T", SP, ">">> }

DiffTexts == TextsUpTo(DiffAlphabet, MaxDiffLen) \cup MarkupDiffs

\* Raw `git log --format=%B` outputs: the five HTML metacharacters, a letter,
\* a line end, the tail of an entity ("&" then "lt;" reads "&lt;"), and the
\* placeholder's own text.
MsgFragments ==
  { <<"&">>, <<"<">>, <<">">>, <<DQ>>, <<SQ>>, <<"a">>, <<LF>>, <<"l", "t", ";">> }
MessageTexts == Concats(MsgFragments, MaxMsgLen) \cup {Placeholder \o <<LF>>, <<SP, LF>>}

\* Asset texts: end tags in several letter cases, with white space before
\* the ">", split in two, and plain text.
AssetFragments ==
  { ScriptEndTag, StyleEndTag,
    <<"<", "/", "S", "c", "R", "I", "p", "t", ">">>,
    <<"<", "/", "S", "T", "Y", "l", "E", ">">>,
    <<"<", "/", "s", "c", "r", "i", "p", "t", SP, ">">>,
    <<"<", "/", "s", "c", "r">>, <<"i", "p", "t", ">">>,
    <<"a">> }
AssetTexts == Concats(AssetFragments, MaxAssetLen)

DefaultDiff == <<"a", LF>>
DefaultMessage == <<"a", LF>>
DefaultAsset == <<"a">>

Present(text) == [state |-> "present", text |-> text]
Absent == [state |-> "absent", text |-> <<>>]
Unreadable == [state |-> "unreadable", text |-> <<>>]

DefaultLibs == [f \in LibFiles |-> Present(DefaultAsset)]
DefaultGit ==
  [headOk |-> TRUE, refOk |-> TRUE, showOk |-> TRUE,
   message |-> DefaultMessage, diff |-> DefaultDiff]
\* A page that renders and loads at once.
DefaultPage == [dclAt |-> 0, busyMs |-> 0, renders |-> TRUE, loads |-> TRUE, loadAt |-> 0]

ArgCases == [isStatic : BOOLEAN, ref : {NoRef, SomeRef}]

\* Pages: the DOMContentLoaded listener runs at dclAt and keeps the thread
\* for busyMs; load, when it fires, fires after it.
PageCases ==
  { [dclAt |-> d, busyMs |-> b, renders |-> r, loads |-> l[1],
     loadAt |-> IF l[1] THEN d + b + l[2] ELSE 0] :
      d \in {0, 4990}, b \in {0, 100}, r \in BOOLEAN,
      l \in {<<TRUE, 0>>, <<TRUE, 7>>, <<FALSE, 0>>} }

\* Runs that differ in their arguments, in what git answers and in which
\* library files exist.
OutcomeCases ==
  { [args |-> a, git |-> [DefaultGit EXCEPT !.headOk = g[1], !.refOk = g[2], !.showOk = g[3]],
     libs |-> l, page |-> DefaultPage] :
      a \in ArgCases,
      g \in BOOLEAN \X BOOLEAN \X BOOLEAN,
      l \in [LibFiles -> {Present(DefaultAsset), Absent, Unreadable}] }

\* Runs, in either mode, that differ in one text.
ModeCases == [isStatic : BOOLEAN, ref : {SomeRef}]
TextCases ==
  { [args |-> a, git |-> [DefaultGit EXCEPT !.message = m], libs |-> DefaultLibs,
     page |-> DefaultPage] : a \in ModeCases, m \in MessageTexts }
  \cup
  { [args |-> a, git |-> [DefaultGit EXCEPT !.diff = d], libs |-> DefaultLibs,
     page |-> DefaultPage] : a \in ModeCases, d \in DiffTexts }
  \cup
  { [args |-> a, git |-> DefaultGit, libs |-> [DefaultLibs EXCEPT ![f] = Present(t)],
     page |-> DefaultPage] : a \in ModeCases, f \in LibFiles, t \in AssetTexts }

\* Static runs that differ in how the page behaves.
WaitCases ==
  { [args |-> [isStatic |-> TRUE, ref |-> SomeRef], git |-> DefaultGit,
     libs |-> DefaultLibs, page |-> p] : p \in PageCases }

\* Static runs on a page whose DOMContentLoaded listener runs only after
\* the deadline.
LatePageCases ==
  { [args |-> [isStatic |-> TRUE, ref |-> SomeRef], git |-> DefaultGit, libs |-> DefaultLibs,
     page |-> [dclAt |-> DeadlineMs + PollMs + FallbackMs, busyMs |-> 0, renders |-> TRUE,
               loads |-> l,
               loadAt |-> IF l THEN DeadlineMs + PollMs + FallbackMs ELSE 0]] :
      l \in BOOLEAN }

InputCases == OutcomeCases \cup TextCases \cup WaitCases \cup LatePageCases

\* The runs the wait is studied on: every page, and one interactive run.
WaitStudyCases ==
  WaitCases
    \cup { [args |-> [isStatic |-> FALSE, ref |-> NoRef], git |-> DefaultGit,
            libs |-> DefaultLibs, page |-> DefaultPage] }

\* The state as main starts, for one of the given input cases.
InitFrom(cases) ==
  /\ \E c \in cases :
       /\ args = c.args
       /\ git = c.git
       /\ libs = c.libs
       /\ page = c.page
  /\ pc = "main"
  /\ commit = ""
  /\ commitMessage = Undefined
  /\ diffOutput = Undefined
  /\ base = NoDoc
  /\ dom = NoDoc
  /\ now = 0
  /\ timers = {}
  /\ dclDone = FALSE
  /\ loadDone = FALSE
  /\ lastCheckAt = 0
  /\ resolvedBy = "none"
  /\ resolvedAt = 0
  /\ outFile = NoDoc
  /\ exitCode = 0
  /\ stderr = <<>>

Init == InitFrom(InputCases)

\* --------------------------------------------------------------- actions

\* The error handler without its process.exit(1): the function returns
\* undefined and main goes on.
FailWithoutExit(kind, file) ==
  /\ stderr' = Append(stderr, [kind |-> kind, file |-> file])
  /\ exitCode' = exitCode
  /\ pc' = CASE pc = "main" -> "commit"
             [] pc = "commit" -> "message"
             [] pc = "message" -> "diff"
             [] OTHER -> "exited"

\* console.error(...); process.exit(1)
Fail(kind, file) ==
  /\ stderr' = Append(stderr, [kind |-> kind, file |-> file])
  /\ exitCode' = 1
  /\ pc' = "exited"

\* main: argument parsing and  commit = positional[0] || getLastCommitHash()
ResolveCommit ==
  /\ pc = "main"
  /\ IF args.ref # NoRef
     THEN /\ commit' = args.ref
          /\ pc' = "commit"
          /\ UNCHANGED << stderr, exitCode >>
     ELSE IF git.headOk
     THEN /\ commit' = HeadHash
          /\ pc' = "commit"
          /\ UNCHANGED << stderr, exitCode >>
     ELSE /\ Fail("Error getting last commit hash", "")
          /\ UNCHANGED commit
  /\ UNCHANGED << inputs, commitMessage, diffOutput, base, dom, waitVars, outFile >>

\* Whether `git log -1 --format=%B <commit>` and `git show <commit>` find the commit.
CommitResolves == commit = HeadHash \/ git.refOk

\* const commitMessage = getCommitMessage(commit)
ReadCommitMessage ==
  /\ pc = "commit"
  /\ IF CommitResolves
     THEN /\ commitMessage' = Trim(git.message)
          /\ pc' = "message"
          /\ UNCHANGED << stderr, exitCode >>
     ELSE /\ Fail("Error getting commit message", "")
          /\ UNCHANGED commitMessage
  /\ UNCHANGED << inputs, commit, diffOutput, base, dom, waitVars, outFile >>

\* const diffOutput = getCommitDiff(commit)
ReadCommitDiff ==
  /\ pc = "message"
  /\ IF CommitResolves /\ git.showOk
     THEN /\ diffOutput' = git.diff
          /\ pc' = "diff"
          /\ UNCHANGED << stderr, exitCode >>
     ELSE /\ Fail("Error getting commit diff", "")
          /\ UNCHANGED diffOutput
  /\ UNCHANGED << inputs, commit, commitMessage, base, dom, waitVars, outFile >>

\* Interactive mode: html = generateHtml(...); fs.writeFileSync(outputFile, html)
WriteInteractive ==
  /\ pc = "diff"
  /\ ~args.isStatic
  /\ LET r == generateHtml(commit, commitMessage, diffOutput)
     IN  IF r.ok
         THEN /\ base' = r.html
              /\ outFile' = r.html
              /\ pc' = "written"
              /\ UNCHANGED << stderr, exitCode >>
         ELSE /\ Fail("Missing required library", r.missing)
              /\ UNCHANGED << base, outFile >>
  /\ UNCHANGED << inputs, commit, commitMessage, diffOutput, dom, waitVars >>

\* Static mode, generateStaticHtml up to its await: compose, build the DOM,
\* take `start`, add the load listener, start the fallback poll.
BeginStatic ==
  /\ pc = "diff"
  /\ args.isStatic
  /\ LET r == generateHtml(commit, commitMessage, diffOutput)
     IN  IF r.ok
         THEN /\ base' = r.html
              /\ dom' = ParseDocument(r.html)
              /\ now' = 0
              /\ timers' = {[chain |-> "fallback", due |-> FallbackMs]}
              /\ pc' = "waiting"
              /\ UNCHANGED << stderr, exitCode >>
         ELSE /\ Fail("Missing required library", r.missing)
              /\ UNCHANGED << base, dom, now, timers >>
  /\ UNCHANGED << inputs, commit, commitMessage, diffOutput, dclDone, loadDone,
                  lastCheckAt, resolvedBy, resolvedAt, outFile >>

\* The times at which the pending tasks of the event loop become ready.
PendingDues ==
  {t.due : t \in timers}
    \cup (IF BootstrapRuns /\ ~dclDone THEN {page.dclAt} ELSE {})
    \cup (IF dom.present /\ page.loads /\ ~loadDone THEN {page.loadAt} ELSE {})

\* An event loop that also takes tasks between resolve() and main's
\* continuation.
TaskRunsAnytime(due) ==
  /\ pc \in {"waiting", "resolved", "written"}
  /\ \A d \in PendingDues : due <= d

\* The event loop takes a task only when main is suspended or has returned
\* (no promise continuation is pending), and takes the tasks in order of
\* readiness.
TaskRuns(due) ==
  /\ pc \in {"waiting", "written"}
  /\ \A d \in PendingDues : due <= d

\* The bootstrap script's DOMContentLoaded listener: Diff2HtmlUI draws into
\* #diff-container (or fails to), keeping the thread for busyMs.
DomContentLoaded ==
  /\ BootstrapRuns
  /\ ~dclDone
  /\ TaskRuns(page.dclAt)
  /\ now' = Max(now, page.dclAt) + page.busyMs
  /\ dclDone' = TRUE
  /\ dom' = IF page.renders THEN [dom EXCEPT !.children = 1] ELSE dom
  /\ UNCHANGED << inputs, pc, commit, commitMessage, diffOutput, base, timers, loadDone,
                  lastCheckAt, resolvedBy, resolvedAt, outFile, exitCode, stderr >>

\* dom.window.addEventListener('load', () => setTimeout(check, 10))
LoadEvent ==
  /\ dom.present
  /\ page.loads
  /\ ~loadDone
  /\ dclDone \/ ~BootstrapRuns
  /\ TaskRuns(page.loadAt)
  /\ now' = Max(now, page.loadAt)
  /\ loadDone' = TRUE
  /\ timers' = timers \cup {[chain |-> "load", due |-> Max(now, page.loadAt) + LoadSettleMs]}
  /\ UNCHANGED << inputs, pc, commit, commitMessage, diffOutput, base, dom, dclDone,
                  lastCheckAt, resolvedBy, resolvedAt, outFile, exitCode, stderr >>

\* The deadline test with >= for >.
DeadlinePassedInclusive(at) == at >= DeadlineMs

\* Date.now() - start > 5000
DeadlinePassed(at) == at > DeadlineMs

\* resolve(): the first call settles the promise and readies main's
\* continuation; later calls do nothing.
Resolve(reason, at) ==
  IF resolvedBy = "none"
  THEN resolvedBy' = reason /\ resolvedAt' = at /\ pc' = "resolved"
  ELSE UNCHANGED << resolvedBy, resolvedAt, pc >>

\* check() with `resolve()` for `return resolve()` on the content branch: the
\* check goes on to the deadline test and the setTimeout.
CheckWithoutReturn ==
  \E t \in timers :
    /\ TaskRuns(t.due)
    /\ LET at == Max(now, t.due)
       IN  /\ now' = at
           /\ lastCheckAt' = at
           /\ IF dom.children > 0
              THEN /\ Resolve("content", at)
                   /\ timers' = IF DeadlinePassed(at) THEN timers \ {t}
                                 ELSE (timers \ {t}) \cup {[chain |-> t.chain, due |-> at + PollMs]}
              ELSE IF DeadlinePassed(at)
              THEN Resolve("deadline", at) /\ timers' = timers \ {t}
              ELSE /\ timers' = (timers \ {t}) \cup {[chain |-> t.chain, due |-> at + PollMs]}
                   /\ UNCHANGED << resolvedBy, resolvedAt, pc >>
    /\ UNCHANGED << inputs, commit, commitMessage, diffOutput, base, dom, dclDone, loadDone,
                    outFile, exitCode, stderr >>

\* function check(), run by one of its timers.
Check ==
  \E t \in timers :
    /\ TaskRuns(t.due)
    /\ LET at == Max(now, t.due)
       IN  /\ now' = at
           /\ lastCheckAt' = at
           /\ IF dom.children > 0
              THEN Resolve("content", at) /\ timers' = timers \ {t}
              ELSE IF DeadlinePassed(at)
              THEN Resolve("deadline", at) /\ timers' = timers \ {t}
              ELSE /\ timers' = (timers \ {t}) \cup {[chain |-> t.chain, due |-> at + PollMs]}
                   /\ UNCHANGED << resolvedBy, resolvedAt, pc >>
    /\ UNCHANGED << inputs, commit, commitMessage, diffOutput, base, dom, dclDone, loadDone,
                    outFile, exitCode, stderr >>

\* A continuation that treats a page without rendered content as an error.
FinalizeRejectsEmpty ==
  /\ pc = "resolved"
  /\ IF dom.children = 0
     THEN Fail("Error rendering diff", "") /\ UNCHANGED << dom, outFile >>
     ELSE /\ dom' = StripScripts(dom)
          /\ outFile' = Serialize(StripScripts(dom))
          /\ pc' = "written"
          /\ UNCHANGED << exitCode, stderr >>
  /\ UNCHANGED << inputs, commit, commitMessage, diffOutput, base, waitVars >>

\* After the await: strip the scripts, serialize, return to main, write the file.
Finalize ==
  /\ pc = "resolved"
  /\ dom' = StripScripts(dom)
  /\ outFile' = Serialize(StripScripts(dom))
  /\ pc' = "written"
  /\ UNCHANGED << inputs, commit, commitMessage, diffOutput, base, waitVars, exitCode, stderr >>

\* main has returned and nothing is pending: the process ends with status 0.
ExitNormally ==
  /\ pc = "written"
  /\ PendingDues = {}
  /\ pc' = "exited"
  /\ exitCode' = 0
  /\ UNCHANGED << inputs, commit, commitMessage, diffOutput, base, dom, waitVars, outFile, stderr >>

Next ==
  \/ ResolveCommit
  \/ ReadCommitMessage
  \/ ReadCommitDiff
  \/ WriteInteractive
  \/ BeginStatic
  \/ DomContentLoaded
  \/ LoadEvent
  \/ Check
  \/ Finalize
  \/ ExitNormally

Spec == Init /\ [][Next]_vars

\* The event loop runs every task that is ready, and main every step it can take.
FairSpec == InitFrom(WaitStudyCases) /\ [][Next]_vars /\ WF_vars(Next)

\* ----------------------------------------------------------------- claims

Chars(s) == {s[i] : i \in 1..Len(s)}

\* C1: the escaped diff in the composed document, read as the body of the
\* bootstrap script's single-quoted string literal, is one well-formed
\* literal whose value is exactly the diff text git gave.
C1_DiffRoundTrip ==
  base.present => JsStringLiteral(base.scripts[2]) = [ok |-> TRUE, val |-> diffOutput]

\* A diff holding a backslash, a quote, a line feed and a carriage return has
\* been composed into a document.
C1_Witness ==
  /\ base.present
  /\ Chars(diffOutput) = {BS, SQ, LF, CR}

\* Whether every "&" of markup s starts one of the five entities escapeHtml writes.
EveryAmpStartsEntity(s) ==
  \A i \in 1..Len(s) :
    s[i] = "&" =>
      \E e \in {AmpEntity, LtEntity, GtEntity, QuotEntity, AposEntity} :
        StartsWith(SubSeq(s, i, Len(s)), e, FALSE)

\* C2: the markup generateHtml puts in the commit-message region for a
\* non-empty message holds none of < > " ', every & in it starts one of the
\* five entities, and the text an HTML parser reads from it is the message;
\* the region of a written document reads as the message too, with no tag in it.
C2_MessageIsLiteralText ==
  (base.present /\ commitMessage # <<>>) =>
    /\ Chars(base.message) \cap {"<", ">", DQ, SQ} = {}
    /\ EveryAmpStartsEntity(base.message)
    /\ HtmlText(base.message) = commitMessage
    /\ outFile.present =>
         /\ "<" \notin Chars(outFile.message)
         /\ HtmlText(outFile.message) = commitMessage

\* A message that already holds entity-like text beside a real "<" has been
\* written out by a static run.
C2_Witness ==
  /\ outFile.present
  /\ args.isStatic
  /\ commitMessage = <<"&", "l", "t", ";", "<">>

\* C3: no asset text that generateHtml embeds in a style or script block
\* holds an end tag of its own element, in any letter case, so the parser
\* never ends the element before the asset's text does.
C3_AssetsNeverEndTheirElement ==
  base.present =>
    /\ \A i \in 1..Len(base.styles) : EndTagAt(base.styles[i], StyleName) = 0
    /\ EndTagAt(base.scripts[1], ScriptName) = 0

C5_BadRefWritesNothing ==
  /\ (args.ref # NoRef /\ ~git.refOk) =>
       /\ ~outFile.present
       /\ pc = "exited" => exitCode # 0
  /\ outFile.present => (commitMessage # Undefined /\ diffOutput # Undefined)

\* A run given a reference that names no commit has ended, with status 1.
C5_Witness ==
  /\ args.ref # NoRef
  /\ ~git.refOk
  /\ pc = "exited"
  /\ exitCode = 1
  /\ stderr = << [kind |-> "Error getting commit message", file |-> ""] >>

\* C6 as stated: the wait always ends, and a wait that ends at the deadline
\* ends more than 5000 ms and at most 5000 + 25 ms after it started.
C6_WaitEndsWithinOnePoll ==
  /\ (pc = "waiting") ~> (pc # "waiting")
  /\ [](resolvedBy = "deadline" =>
          (resolvedAt > DeadlineMs /\ resolvedAt <= DeadlineMs + PollMs))

\* C6, amended: the wait always ends, whether or not load fires; a wait that
\* ends at the deadline ends at a poll that ran more than 5000 ms after the
\* wait started and saw no content, and no earlier poll ran past the deadline
\* (that poll can run more than 25 ms past the deadline when a script of the
\* page keeps the thread).
C6_WaitEnds ==
  /\ (pc = "waiting") ~> (pc # "waiting")
  /\ [](resolvedBy = "deadline" => resolvedAt > DeadlineMs)
  /\ [](pc = "resolved" => resolvedAt = lastCheckAt)
  /\ [](pc = "waiting" => (resolvedBy = "none" /\ lastCheckAt <= DeadlineMs))

\* A wait on a page that never loads and never renders has ended at the
\* deadline, more than one polling interval past it.
C6_Witness ==
  /\ resolvedBy = "deadline"
  /\ ~page.loads
  /\ ~page.renders
  /\ resolvedAt > DeadlineMs + PollMs

MissingLibraryMessage(file) == [kind |-> "Missing required library", file |-> file]

\* C8: in either mode, a run with one of the three library files absent writes
\* no file and composes no document, ends with a non-zero status, and, when
\* git gave the message and the diff, prints the remediation message (for the
\* first file that could not be read) and nothing else; a written document
\* always had all three files.
C8_MissingAssetFailsRun ==
  /\ (\E f \in LibFiles : libs[f].state = "absent") =>
       /\ ~outFile.present
       /\ ~base.present
       /\ pc = "exited" => exitCode # 0
       /\ (pc = "exited" /\ diffOutput # Undefined) =>
            \E f \in LibFiles :
              libs[f].state # "present" /\ stderr = << MissingLibraryMessage(f) >>
  /\ outFile.present => \A f \in LibFiles : libs[f].state = "present"

\* A static run with only the diff-viewer script absent has ended.
C8_Witness ==
  /\ args.isStatic
  /\ libs[Diff2HtmlJs].state = "absent"
  /\ libs[HighlightCss].state = "present"
  /\ libs[Diff2HtmlCss].state = "present"
  /\ pc = "exited"
  /\ exitCode = 1
  /\ stderr = << MissingLibraryMessage(Diff2HtmlJs) >>

\* C9: the "missing library" message is printed only for a file that is
\* absent; a file that is there but cannot be read gets another message.
C9_MissingMessageOnlyWhenAbsent ==
  \A i \in 1..Len(stderr) :
    stderr[i].kind = "Missing required library" => libs[stderr[i].file].state = "absent"

\* C10 as stated: the region holds the placeholder for an empty message, and
\* for every other message the escaped message and not the placeholder.
C10_PlaceholderIffEmpty ==
  base.present =>
    /\ commitMessage = <<>> => base.message = Placeholder
    /\ commitMessage # <<>> =>
         (base.message = escapeHtml(commitMessage) /\ base.message # Placeholder)

\* C10, amended: the region holds the placeholder for an empty message, also
\* one git gave as white space only; for every other message it holds the
\* escaped message, which differs from the placeholder unless the message is
\* itself the placeholder's text.
C10_PlaceholderForEmpty ==
  base.present =>
    /\ Chars(git.message) \subseteq WhiteSpace => commitMessage = <<>>
    /\ commitMessage = <<>> => base.message = Placeholder
    /\ commitMessage # <<>> =>
         /\ base.message = escapeHtml(commitMessage)
         /\ base.message # <<>>
         /\ base.message = Placeholder => commitMessage = Placeholder

\* A message of white space only has been composed into a document.
C10_Witness ==
  /\ base.present
  /\ git.message = <<SP, LF>>
  /\ base.message = Placeholder

\* The number of backslashes that end text s.
RECURSIVE TrailingBackslashes(_)
TrailingBackslashes(s) ==
  IF s # <<>> /\ s[Len(s)] = BS THEN 1 + TrailingBackslashes(SubSeq(s, 1, Len(s) - 1)) ELSE 0

\* C11: the escaped diff generateHtml puts between the quotes of the
\* diffString literal holds no raw LF or CR, no single quote that an odd
\* run of backslashes does not escape, and no end tag of the enclosing script
\* element, so no diff ends the literal or the script element.
C11_DiffStaysInsideLiteral ==
  base.present =>
    LET lit == base.scripts[2]
    IN  /\ Chars(lit) \cap {LF, CR} = {}
        /\ \A i \in 1..Len(lit) :
             lit[i] = SQ => TrailingBackslashes(SubSeq(lit, 1, i - 1)) % 2 = 1
        /\ EndTagAt(lit, ScriptName) = 0

\* C12: the check that resolves the wait leaves the DOM as it is; from the
\* state it leaves, the only step is main's continuation, which strips the
\* scripts and serializes: no listener of the page and no timer runs in
\* between (no task is taken, the clock and the timers stay as they are), and
\* the written #diff-container has the children the DOM had when the wait
\* resolved.  So a written static document has rendered content exactly when
\* the resolving check saw content, whatever the page does afterwards.
C12_SnapshotAtResolution ==
  /\ [][ /\ (pc # "resolved" /\ pc' = "resolved") => dom' = dom
         /\ pc = "resolved" =>
              /\ pc' = "written"
              /\ UNCHANGED waitVars
              /\ outFile'.present
              /\ outFile'.children = dom.children
              /\ outFile'.scripts = <<>> ]_vars
  /\ []((args.isStatic /\ outFile.present) =>
          (outFile.children > 0 <=> resolvedBy = "content"))

\* A wait ended at the deadline with nothing rendered, the document was
\* written, and the page rendered afterwards: the DOM has content that the
\* written document does not.
C12_Witness ==
  /\ resolvedBy = "deadline"
  /\ outFile.present
  /\ outFile.children = 0
  /\ dom.children > 0
  /\ dclDone

\* A step in which one pending check ran: a timer went, and at most one came.
CheckStep ==
  /\ timers' # timers
  /\ Cardinality(timers') <= Cardinality(timers)

\* C13: at every moment at most two check timers are pending, at most one of
\* the chain the load listener started and one of the chain the fallback
\* started; a check that runs during the wait and sees child content in
\* #diff-container resolves the wait, and the wait resolves by content at no
\* other check; a check sets a new timer only when it saw no content and ran
\* no later than the deadline, 25 ms ahead and on its own chain; and once the
\* wait has resolved every check that runs ends its chain.
C13_TwoChainsThatEnd ==
  /\ [](/\ Cardinality(timers) <= 2
        /\ \A t, u \in timers : t.chain = u.chain => t = u
        /\ \A t \in timers : t.chain \in {"load", "fallback"}
        /\ (\E t \in timers : t.chain = "load") => loadDone)
  /\ [][CheckStep =>
          /\ (pc = "waiting" /\ dom.children > 0) =>
               (pc' = "resolved" /\ resolvedBy' = "content" /\ resolvedAt' = now')
          /\ (resolvedBy = "none" /\ resolvedBy' = "content") => dom.children > 0
          /\ \A u \in timers' \ timers :
               /\ dom.children = 0
               /\ ~DeadlinePassed(now')
               /\ u.due = now' + PollMs
               /\ \E t \in timers \ timers' : t.chain = u.chain
          /\ resolvedBy # "none" =>
               (timers' \subseteq timers /\ UNCHANGED << resolvedBy, resolvedAt, pc >>)]_vars

\* Both chains polled a page that loaded and never rendered; the load chain's
\* check ended the wait at the deadline, the fallback chain's next check ran
\* after it, and no timer is left.
C13_Witness ==
  /\ resolvedBy = "deadline"
  /\ loadDone
  /\ ~page.renders
  /\ lastCheckAt > resolvedAt
  /\ timers = {}

====
